---- MODULE Spec2Model ----
(***************************************************************************)
(* The agent loop of sfa_duckdb_gemini_v2.py: main() sends the message     *)
(* history to the model backend for at most args.compute rounds, runs the  *)
(* function calls of each reply against the five DuckDB tools, appends the *)
(* results to the history and returns on run_final_sql_query.              *)
(*                                                                         *)
(* Text is a sequence of string tokens.  A value returned by a tool is a   *)
(* record [list, items]: a Python list of strings or a Python string.      *)
(***************************************************************************)
EXTENDS Integers, Sequences, FiniteSets, TLC

\* Largest value of --compute explored.
MaxCompute == 3
\* Largest number of function calls in one backend reply.
MaxCalls == 2
\* Largest number of function calls the backend issues over one run; once
\* they are used up the backend replies with free text or fails.
MaxInvocations == 2

VARIABLES
    pc,          \* position in main(): "start", "loop", "calls", "done"
    api_key,     \* whether GEMINI_API_KEY is set
    compute,     \* args.compute
    DB_PATH,     \* the module global the tools read
    i,           \* number of rounds started by the for loop
    messages,    \* the message history
    pending,     \* function calls of the current reply not yet reached
    result,      \* main()'s local `result`: [bound, val]
    outcome,     \* "Running", "Terminated", "Exhausted", "Aborted", "ConfigError"
    exit_code,   \* process exit status, -1 while running
    raised,      \* an exception propagated out of main()
    output,      \* values printed under "Final Results:"
    warned,      \* the maximum-compute-loops warning was printed
    issued,      \* function calls the backend has issued so far
    backend_log, \* one entry per generate_content call: "fail", "text", "calls"
    call_log,    \* one entry per iteration of the function-call loop
    stamps,      \* for each turn of messages, the round that appended it
    runs         \* the runs of main() side by side in one process, by run id

vars == <<pc, api_key, compute, DB_PATH, i, messages, pending, result, outcome,
          exit_code, raised, output, warned, issued, backend_log, call_log,
          stamps, runs>>

----------------------------------------------------------------------------
\* The tools and their signatures.

ToolNames ==
    {"list_tables", "describe_table", "sample_table",
     "run_test_sql_query", "run_final_sql_query"}

\* A name the dispatch chain has no branch for.
UnknownName == "drop_table"

Params(name) ==
    CASE name = "list_tables" -> <<"reasoning">>
      [] name = "describe_table" -> <<"reasoning", "table_name">>
      [] name = "sample_table" -> <<"reasoning", "table_name", "row_count">>
      [] name = "run_test_sql_query" -> <<"reasoning", "sql_query">>
      [] name = "run_final_sql_query" -> <<"reasoning", "sql_query">>
      [] OTHER -> <<>>

Range(s) == {s[k] : k \in 1..Len(s)}

Front(s) == SubSeq(s, 1, Len(s) - 1)

\* f(**func_args) binds exactly when the keys are the parameters of f (none
\* has a default); otherwise Python raises TypeError before the body runs.
BindsAlways(name, func_args) == TRUE

Binds(name, func_args) == Range(func_args) = Range(Params(name))

\* Outcome of subprocess.run inside a tool: exit status 0, a nonzero exit
\* status (not checked by the tools), or an exception raised by the call.
DbOutcomes == {"ok", "nonzero", "exception"}

\* result.stdout: the rows on exit status 0, nothing otherwise.
Stdout(db) == IF db = "ok" THEN <<"rows">> ELSE <<>>

PyStr(s) == [list |-> FALSE, items |-> s]

PyList(s) == [list |-> TRUE, items |-> s]

\* stdout.strip().split("\n"): the empty string splits into [''].
StripSplit(s) == IF s = <<>> THEN PyList(<<"">>) ELSE PyList(s)

\* The value a tool returns once its arguments are bound.
ToolReturn(name, db) ==
    CASE name = "list_tables" ->
            IF db = "exception" THEN PyList(<<>>) ELSE StripSplit(Stdout(db))
      [] name \in {"describe_table", "sample_table"} ->
            IF db = "exception" THEN PyStr(<<>>) ELSE PyStr(Stdout(db))
      [] OTHER ->
            IF db = "exception" THEN PyStr(<<"exception text">>)
            ELSE PyStr(Stdout(db))

\* str(result)
Str(v) ==
    IF v.list
    THEN <<"[">> \o [k \in 1..Len(v.items) |-> "'" \o v.items[k] \o "'"] \o <<"]">>
    ELSE v.items

----------------------------------------------------------------------------
\* Turns of the history.

UserTurn == [role |-> "user", name |-> "", content |-> <<"completed_prompt">>]

FunctionTurn(func_name, v) ==
    [role |-> "function", name |-> func_name, content |-> Str(v)]

ErrorMsg(func_name, func_args, e) ==
    <<"Error executing", func_name, "with args">> \o func_args
        \o <<"Try again:", e>>

ErrorTurn(func_name, func_args, e) ==
    [role |-> "model", name |-> "", content |-> ErrorMsg(func_name, func_args, e)]

TextTurn == [role |-> "model", name |-> "", content |-> <<"response.text">>]

PrependTurn(h, t) == <<t>> \o h

DropTurn(h, t) == h

AppendTurn(h, t) == Append(h, t)

----------------------------------------------------------------------------
\* Inputs.

Computes == -1..MaxCompute

ArgChoices(name) ==
    IF name \in ToolNames THEN {Params(name), Front(Params(name))}
    ELSE {<<"reasoning">>}

Invocations ==
    {[name |-> n, args |-> a] :
        n \in ToolNames \cup {UnknownName},
        a \in {<<>>, <<"reasoning">>, <<"reasoning", "table_name">>,
               <<"reasoning", "table_name", "row_count">>,
               <<"reasoning", "sql_query">>}}

FunctionCalls == {fc \in Invocations : fc.args \in ArgChoices(fc.name)}

Replies(n) == UNION {[1..m -> FunctionCalls] : m \in 1..n}

Min(a, b) == IF a < b THEN a ELSE b

----------------------------------------------------------------------------

Init ==
    /\ pc = "start"
    /\ api_key \in BOOLEAN
    /\ compute \in Computes
    /\ DB_PATH = "unset"
    /\ i = 0
    /\ messages = <<>>
    /\ pending = <<>>
    /\ result = [bound |-> FALSE, val |-> PyStr(<<>>)]
    /\ outcome = "Running"
    /\ exit_code = -1
    /\ raised = FALSE
    /\ output = <<>>
    /\ warned = FALSE
    /\ issued = 0
    /\ backend_log = <<>>
    /\ call_log = <<>>
    /\ stamps = <<>>
    /\ runs = <<>>

\* GEMINI_API_KEY is not set: sys.exit(1).
MissingKeyIgnored ==
    /\ pc = "start"
    /\ ~api_key
    /\ DB_PATH' = "args.db"
    /\ messages' = <<UserTurn>>
    /\ stamps' = <<0>>
    /\ pc' = "loop"
    /\ UNCHANGED <<runs, api_key, compute, i, pending, result, outcome, exit_code,
                   raised, output, warned, issued, backend_log, call_log>>

MissingKey ==
    /\ pc = "start"
    /\ ~api_key
    /\ pc' = "done"
    /\ outcome' = "ConfigError"
    /\ exit_code' = 1
    /\ UNCHANGED <<runs, api_key, compute, DB_PATH, i, messages, pending, result,
                   raised, output, warned, issued, backend_log, call_log,
                   stamps>>

\* The key is set: DB_PATH and the initial history are set up.
Setup ==
    /\ pc = "start"
    /\ api_key
    /\ DB_PATH' = "args.db"
    /\ messages' = <<UserTurn>>
    /\ stamps' = <<0>>
    /\ pc' = "loop"
    /\ UNCHANGED <<runs, api_key, compute, i, pending, result, outcome, exit_code,
                   raised, output, warned, issued, backend_log, call_log>>

\* for i in range(args.compute): whether a round is left.
HasNextOffByOne(n, c) == n <= c

HasNextAtLeastOnce(n, c) == n < c \/ n = 0

HasNext(n, c) == n < c

\* The loop is over: the warning is printed and main() returns.
LoopExitStuck ==
    /\ pc = "loop"
    /\ ~HasNext(i, compute)
    /\ UNCHANGED vars

LoopExit ==
    /\ pc = "loop"
    /\ ~HasNext(i, compute)
    /\ warned' = TRUE
    /\ outcome' = "Exhausted"
    /\ exit_code' = 0
    /\ pc' = "done"
    /\ UNCHANGED <<runs, api_key, compute, DB_PATH, i, messages, pending, result,
                   raised, output, issued, backend_log, call_log, stamps>>

\* generate_content raises: the outer handler prints and re-raises.
GenerateFailsSwallowed ==
    /\ pc = "loop"
    /\ HasNext(i, compute)
    /\ i' = i + 1
    /\ backend_log' = Append(backend_log, "fail")
    /\ UNCHANGED <<runs, pc, api_key, compute, DB_PATH, messages, pending, result,
                   outcome, exit_code, raised, output, warned, issued,
                   call_log, stamps>>

GenerateFails ==
    /\ pc = "loop"
    /\ HasNext(i, compute)
    /\ i' = i + 1
    /\ backend_log' = Append(backend_log, "fail")
    /\ outcome' = "Aborted"
    /\ raised' = TRUE
    /\ exit_code' = 1
    /\ pc' = "done"
    /\ UNCHANGED <<runs, api_key, compute, DB_PATH, messages, pending, result,
                   output, warned, issued, call_log, stamps>>

\* The reply holds no function call: response.text is appended.
GenerateTextTerminates ==
    /\ pc = "loop"
    /\ HasNext(i, compute)
    /\ i' = i + 1
    /\ backend_log' = Append(backend_log, "text")
    /\ messages' = AppendTurn(messages, TextTurn)
    /\ stamps' = AppendTurn(stamps, i + 1)
    /\ outcome' = "Terminated"
    /\ exit_code' = 0
    /\ pc' = "done"
    /\ UNCHANGED <<runs, api_key, compute, DB_PATH, pending, result, raised, output,
                   warned, issued, call_log>>

GenerateText ==
    /\ pc = "loop"
    /\ HasNext(i, compute)
    /\ i' = i + 1
    /\ backend_log' = Append(backend_log, "text")
    /\ messages' = AppendTurn(messages, TextTurn)
    /\ stamps' = AppendTurn(stamps, i + 1)
    /\ UNCHANGED <<runs, pc, api_key, compute, DB_PATH, pending, result, outcome,
                   exit_code, raised, output, warned, issued, call_log>>

\* The reply holds function calls: the inner loop starts.
GenerateCalls ==
    /\ pc = "loop"
    /\ HasNext(i, compute)
    /\ \E calls \in Replies(Min(MaxCalls, MaxInvocations - issued)) :
          /\ pending' = calls
          /\ issued' = issued + Len(calls)
    /\ i' = i + 1
    /\ backend_log' = Append(backend_log, "calls")
    /\ pc' = "calls"
    /\ UNCHANGED <<runs, api_key, compute, DB_PATH, messages, result, outcome,
                   exit_code, raised, output, warned, call_log, stamps>>

\* What one iteration of the function-call loop does with func_call, given
\* the outcome db of the database process and the local `result` before it:
\*   ret    main() returns from the run_final_sql_query branch
\*   exc    the exception caught by the inner handler, "" if none
\*   db     the outcome of the database process, "none" if no tool body ran
\*   res    the local `result` afterwards
FinalFallsThrough(name) == FALSE

ReturnsAfterQuery(name) ==
    name \in {"run_test_sql_query", "run_final_sql_query"}

ReturnsAfter(name) == name = "run_final_sql_query"

Step(fc, db, res) ==
    IF fc.name \in ToolNames
    THEN IF Binds(fc.name, fc.args)
         THEN [ret |-> ReturnsAfter(fc.name), exc |-> "", db |-> db,
               res |-> [bound |-> TRUE, val |-> ToolReturn(fc.name, db)]]
         ELSE [ret |-> FALSE, exc |-> "TypeError", db |-> "none", res |-> res]
    ELSE IF res.bound
         THEN [ret |-> FALSE, exc |-> "", db |-> "none", res |-> res]
         ELSE [ret |-> FALSE, exc |-> "UnboundLocalError", db |-> "none",
               res |-> res]

\* The turn one iteration appends, unless main() returns.
TurnOf(fc, s) ==
    IF s.exc = "" THEN FunctionTurn(fc.name, s.res.val)
    ELSE ErrorTurn(fc.name, fc.args, s.exc)

\* The function call the inner loop takes next, and the ones left after it.
NextCallFromEnd(p) == p[Len(p)]

NextCall(p) == Head(p)

\* The history when main() returns from the run_final_sql_query branch: the
\* return comes before messages.append.
HistoryOnReturnAppends(h, t) == Append(h, t)

HistoryOnReturn(h, t) == h

\* One iteration of `for func_call in response.function_calls`.
Dispatch ==
    /\ pc = "calls"
    /\ pending # <<>>
    /\ \E db \in DbOutcomes :
          LET fc == NextCall(pending)
              s == Step(fc, db, result)
              turn == TurnOf(fc, s)
          IN  /\ result' = s.res
              /\ call_log' = Append(call_log,
                    [round |-> i, name |-> fc.name, args |-> fc.args,
                     db |-> s.db, exc |-> s.exc, ret |-> s.ret,
                     turn |-> IF s.ret THEN 0 ELSE Len(messages) + 1,
                     left |-> Len(pending) - 1,
                     path |-> IF s.db = "none" THEN "none" ELSE DB_PATH])
              /\ IF s.ret
                 THEN /\ output' = Append(output, s.res.val)
                      /\ outcome' = "Terminated"
                      /\ exit_code' = 0
                      /\ pc' = "done"
                      /\ messages' = HistoryOnReturn(messages, turn)
                      /\ stamps' = HistoryOnReturn(stamps, i)
                      /\ UNCHANGED pending
                 ELSE /\ messages' = AppendTurn(messages, turn)
                      /\ stamps' = AppendTurn(stamps, i)
                      /\ pending' = Tail(pending)
                      /\ pc' = IF Tail(pending) = <<>> THEN "loop" ELSE "calls"
                      /\ UNCHANGED <<output, outcome, exit_code>>
    /\ UNCHANGED <<runs, api_key, compute, DB_PATH, i, raised, warned, issued,
                   backend_log>>

Next ==
    \/ MissingKey
    \/ Setup
    \/ LoopExit
    \/ GenerateFails
    \/ GenerateText
    \/ GenerateCalls
    \/ Dispatch

Spec == Init /\ [][Next]_vars

\* main() runs in one thread that keeps going as long as each backend call
\* and each tool call returns: a step that can be taken is taken.
FairSpec == Spec /\ WF_vars(Next)

----------------------------------------------------------------------------
\* Several runs of main() in one process.  Each run has the locals of its
\* own call of main() (a record); DB_PATH is the one module global that all
\* of them write in their setup and read in their tool calls.  Function
\* calls carry the text of their reasoning argument here.

\* Largest value of --compute of the runs explored side by side.
MaxSideCompute == 1
\* Largest number of function calls in a reply to interleaved runs.
MaxSideCalls == 1

Reasonings == {"because A", "because B"}

Paths == <<"a.db", "b.db">>

RunInit(path, c) ==
    [pc |-> "start", db |-> path, compute |-> c, i |-> 0, messages |-> <<>>,
     owners |-> <<>>, pending |-> <<>>,
     result |-> [bound |-> FALSE, val |-> PyStr(<<>>)],
     outcome |-> "Running", raised |-> FALSE, warned |-> FALSE,
     output |-> <<>>, issued |-> 0, replies |-> <<>>, calls |-> <<>>]

\* func_call with the text of its reasoning argument, if it has one.
WithReasoning(fc, why) ==
    [name |-> fc.name, args |-> fc.args,
     reasoning |-> IF "reasoning" \in Range(fc.args) THEN why ELSE ""]

\* str(func_args): every key followed by its value.
ArgsText(fc) ==
    [j \in 1..(2 * Len(fc.args)) |->
        IF j % 2 = 1 THEN fc.args[(j + 1) \div 2]
        ELSE IF fc.args[j \div 2] = "reasoning" THEN fc.reasoning
        ELSE "value"]

\* The value the tool returns: its reasoning argument is only logged.
RunToolEchoesReasoning(fc, db) == PyStr(<<fc.reasoning>>)

RunTool(fc, db) == ToolReturn(fc.name, db)

RunStep(fc, db, res) ==
    LET s == Step(fc, db, res)
    IN  IF s.db = "none" THEN s
        ELSE [s EXCEPT !.res = [bound |-> TRUE, val |-> RunTool(fc, db)]]

RunSetup(st) ==
    [st EXCEPT !.messages = <<UserTurn>>, !.owners = <<"self">>, !.pc = "loop"]

RunLoopExit(st) ==
    [st EXCEPT !.warned = TRUE, !.outcome = "Exhausted", !.pc = "done"]

RunGenerateFails(st) ==
    [st EXCEPT !.i = @ + 1, !.replies = Append(@, <<"fail">>),
               !.outcome = "Aborted", !.raised = TRUE, !.pc = "done"]

RunGenerateText(st) ==
    [st EXCEPT !.i = @ + 1, !.replies = Append(@, <<"text">>),
               !.messages = AppendTurn(@, TextTurn),
               !.owners = AppendTurn(@, "self")]

RunGenerateCalls(st, calls) ==
    [st EXCEPT !.i = @ + 1,
               !.replies = Append(@, [k \in 1..Len(calls) |-> calls[k].name]),
               !.pending = calls, !.issued = @ + Len(calls), !.pc = "calls"]

\* One iteration of the function-call loop of a run; path is DB_PATH as the
\* tool reads it.
RunDispatch(st, db, path) ==
    LET fc == NextCall(st.pending)
        s == RunStep(fc, db, st.result)
        turn == IF s.exc = "" THEN FunctionTurn(fc.name, s.res.val)
                ELSE ErrorTurn(fc.name, ArgsText(fc), s.exc)
        entry == [name |-> fc.name, args |-> fc.args, db |-> s.db,
                  exc |-> s.exc, ret |-> s.ret,
                  path |-> IF s.db = "none" THEN "none" ELSE path]
    IN  IF s.ret
        THEN [st EXCEPT !.result = s.res, !.calls = Append(@, entry),
                        !.output = Append(@, s.res.val),
                        !.outcome = "Terminated", !.pc = "done"]
        ELSE [st EXCEPT !.result = s.res, !.calls = Append(@, entry),
                        !.messages = AppendTurn(@, turn),
                        !.owners = AppendTurn(@, "self"),
                        !.pending = Tail(@),
                        !.pc = IF Tail(st.pending) = <<>> THEN "loop"
                               ELSE "calls"]

\* The variables of the single run, which no run of this part touches.
MainIdle ==
    UNCHANGED <<pc, api_key, compute, i, messages, pending, result, outcome,
                exit_code, raised, output, warned, issued, backend_log,
                call_log, stamps>>

InitMainIdle ==
    /\ pc = "done"
    /\ api_key = TRUE
    /\ compute = 0
    /\ DB_PATH = "unset"
    /\ i = 0
    /\ messages = <<>>
    /\ pending = <<>>
    /\ result = [bound |-> FALSE, val |-> PyStr(<<>>)]
    /\ outcome = "Running"
    /\ exit_code = -1
    /\ raised = FALSE
    /\ output = <<>>
    /\ warned = FALSE
    /\ issued = 0
    /\ backend_log = <<>>
    /\ call_log = <<>>
    /\ stamps = <<>>

\* Two runs with different database paths whose steps interleave.
InitTwo ==
    /\ InitMainIdle
    /\ \E c \in [1..2 -> 0..MaxSideCompute] :
          runs = [r \in 1..2 |-> RunInit(Paths[r], c[r])]

TwoSetup ==
    /\ \E r \in DOMAIN runs :
          /\ runs[r].pc = "start"
          /\ DB_PATH' = runs[r].db
          /\ runs' = [runs EXCEPT ![r] = RunSetup(@)]
    /\ MainIdle

TwoLoopExit ==
    /\ \E r \in DOMAIN runs :
          /\ runs[r].pc = "loop"
          /\ ~HasNext(runs[r].i, runs[r].compute)
          /\ runs' = [runs EXCEPT ![r] = RunLoopExit(@)]
    /\ UNCHANGED DB_PATH
    /\ MainIdle

TwoGenerateFails ==
    /\ \E r \in DOMAIN runs :
          /\ runs[r].pc = "loop"
          /\ HasNext(runs[r].i, runs[r].compute)
          /\ runs' = [runs EXCEPT ![r] = RunGenerateFails(@)]
    /\ UNCHANGED DB_PATH
    /\ MainIdle

TwoGenerateText ==
    /\ \E r \in DOMAIN runs :
          /\ runs[r].pc = "loop"
          /\ HasNext(runs[r].i, runs[r].compute)
          /\ runs' = [runs EXCEPT ![r] = RunGenerateText(@)]
    /\ UNCHANGED DB_PATH
    /\ MainIdle

TwoGenerateCalls ==
    /\ \E r \in DOMAIN runs :
          /\ runs[r].pc = "loop"
          /\ HasNext(runs[r].i, runs[r].compute)
          /\ \E calls \in Replies(MaxSideCalls) :
                runs' = [runs EXCEPT ![r] = RunGenerateCalls(@,
                            [k \in 1..Len(calls) |->
                                WithReasoning(calls[k], "because A")])]
    /\ UNCHANGED DB_PATH
    /\ MainIdle

TwoDispatch ==
    /\ \E r \in DOMAIN runs :
          /\ runs[r].pc = "calls"
          /\ \E db \in DbOutcomes :
                runs' = [runs EXCEPT ![r] = RunDispatch(@, db, DB_PATH)]
    /\ UNCHANGED DB_PATH
    /\ MainIdle

NextTwo ==
    \/ TwoSetup
    \/ TwoLoopExit
    \/ TwoGenerateFails
    \/ TwoGenerateText
    \/ TwoGenerateCalls
    \/ TwoDispatch

SpecTwo == InitTwo /\ [][NextTwo]_vars

\* Two runs of the same command line that are fed, round by round, the
\* same reply and the same database outcomes, except that the texts of the
\* reasoning arguments are chosen separately for each.  A step is taken by
\* every run that stands at the position of the step.
InitPair ==
    /\ InitMainIdle
    /\ \E c \in 0..MaxSideCompute :
          runs = [r \in 1..2 |-> RunInit(Paths[1], c)]

AtLoop(st) == st.pc = "loop" /\ HasNext(st.i, st.compute)

PairIssued ==
    IF runs[1].issued < runs[2].issued THEN runs[2].issued ELSE runs[1].issued

PairSetup ==
    /\ \E r \in DOMAIN runs : runs[r].pc = "start"
    /\ runs' = [r \in DOMAIN runs |->
                  IF runs[r].pc = "start" THEN RunSetup(runs[r]) ELSE runs[r]]
    /\ DB_PATH' = Paths[1]
    /\ MainIdle

PairLoopExit ==
    /\ \E r \in DOMAIN runs :
          runs[r].pc = "loop" /\ ~HasNext(runs[r].i, runs[r].compute)
    /\ runs' = [r \in DOMAIN runs |->
                  IF runs[r].pc = "loop" /\ ~HasNext(runs[r].i, runs[r].compute)
                  THEN RunLoopExit(runs[r]) ELSE runs[r]]
    /\ UNCHANGED DB_PATH
    /\ MainIdle

PairGenerateFails ==
    /\ \E r \in DOMAIN runs : AtLoop(runs[r])
    /\ runs' = [r \in DOMAIN runs |->
                  IF AtLoop(runs[r]) THEN RunGenerateFails(runs[r])
                  ELSE runs[r]]
    /\ UNCHANGED DB_PATH
    /\ MainIdle

PairGenerateText ==
    /\ \E r \in DOMAIN runs : AtLoop(runs[r])
    /\ runs' = [r \in DOMAIN runs |->
                  IF AtLoop(runs[r]) THEN RunGenerateText(runs[r])
                  ELSE runs[r]]
    /\ UNCHANGED DB_PATH
    /\ MainIdle

PairGenerateCalls ==
    /\ \E r \in DOMAIN runs : AtLoop(runs[r])
    /\ \E calls \in Replies(Min(MaxCalls, MaxInvocations - PairIssued)) :
          \E why \in [DOMAIN runs -> [1..Len(calls) -> Reasonings]] :
              runs' = [r \in DOMAIN runs |->
                          IF AtLoop(runs[r])
                          THEN RunGenerateCalls(runs[r],
                                  [k \in 1..Len(calls) |->
                                      WithReasoning(calls[k], why[r][k])])
                          ELSE runs[r]]
    /\ UNCHANGED DB_PATH
    /\ MainIdle

PairDispatch ==
    /\ \E r \in DOMAIN runs : runs[r].pc = "calls"
    /\ \E db \in DbOutcomes :
          runs' = [r \in DOMAIN runs |->
                      IF runs[r].pc = "calls"
                      THEN RunDispatch(runs[r], db, DB_PATH) ELSE runs[r]]
    /\ UNCHANGED DB_PATH
    /\ MainIdle

NextPair ==
    \/ PairSetup
    \/ PairLoopExit
    \/ PairGenerateFails
    \/ PairGenerateText
    \/ PairGenerateCalls
    \/ PairDispatch

SpecPair == InitPair /\ [][NextPair]_vars

----------------------------------------------------------------------------
\* Vocabulary of the properties.

Final == "run_final_sql_query"

LastCall == call_log[Len(call_log)]

\* The step is one iteration of the function-call loop.
NewCall == Len(call_log') = Len(call_log) + 1

\* The step is one generate_content call.
NewRound == Len(backend_log') = Len(backend_log) + 1

\* Entries of the call log whose tool body ran.
Executed(name) ==
    {k \in DOMAIN call_log : call_log[k].name = name /\ call_log[k].db # "none"}

\* The invocation lacks a required argument of a registered tool.
MissingArgument(e) ==
    /\ e.name \in ToolNames
    /\ Range(e.args) # Range(Params(e.name))
    /\ Range(e.args) \subseteq Range(Params(e.name))

\* The database process failed during the invocation.
ExecutionFailed(e) == e.db \in {"nonzero", "exception"}

\* The invocation succeeded: a registered tool, bound, database exit status 0.
Succeeded(e) == e.name \in ToolNames /\ e.db = "ok"

Failed(e) == ~Succeeded(e)

Mentions(content, tokens) ==
    \E j \in 1..(Len(content) + 1) :
        /\ j + Len(tokens) - 1 <= Len(content)
        /\ SubSeq(content, j, j + Len(tokens) - 1) = tokens

\* t is an error turn naming the tool and the arguments of e.
IsErrorTurnFor(t, e) ==
    /\ t.role = "model"
    /\ Mentions(t.content, <<e.name>>)
    /\ Mentions(t.content, e.args)

IsPrefix(s, t) == Len(s) <= Len(t) /\ SubSeq(t, 1, Len(s)) = s

----------------------------------------------------------------------------
\* C1: with a compute budget B >= 1, a run makes at most B backend calls
\* (rounds) and the body of run_final_sql_query runs at most once.
C1_BoundedRounds ==
    compute >= 1 =>
        /\ Len(backend_log) <= compute
        /\ i <= compute
        /\ Cardinality(Executed(Final)) <= 1

C1_Witness ==
    /\ compute = MaxCompute
    /\ Len(backend_log) = compute
    /\ Cardinality(Executed(Final)) = 1
    /\ Len(call_log) >= 2

\* C2: a run_final_sql_query invocation that succeeds terminates the run in
\* that step, and a terminated run dispatches no call, starts no round and
\* appends no turn.
C2_FinalTerminates ==
    /\ [][(NewCall /\ LastCall'.name = Final /\ Succeeded(LastCall'))
            => /\ outcome' = "Terminated"
               /\ pc' = "done"
               /\ messages' = messages]_vars
    /\ [][outcome = "Terminated"
            => /\ call_log' = call_log
               /\ backend_log' = backend_log
               /\ messages' = messages
               /\ outcome' = "Terminated"]_vars

C2_Witness ==
    /\ outcome = "Terminated"
    /\ call_log # <<>>
    /\ LastCall.name = Final
    /\ Succeeded(LastCall)
    /\ LastCall.left > 0
    /\ i < compute

\* C3: a finished run whose backend never failed and in which no
\* run_final_sql_query succeeded is Exhausted after exactly B rounds, with
\* the warning and exit status 0.
C3_ExhaustedClaim ==
    (/\ pc = "done"
     /\ api_key
     /\ compute >= 0
     /\ \A k \in DOMAIN backend_log : backend_log[k] # "fail"
     /\ \A k \in DOMAIN call_log :
            ~(call_log[k].name = Final /\ Succeeded(call_log[k])))
    => /\ outcome = "Exhausted"
       /\ Len(backend_log) = compute
       /\ warned
       /\ exit_code = 0
       /\ ~raised

\* C4: a failing backend call aborts the run in that step with the exception
\* propagated and no warning, and an aborted run makes no backend call,
\* dispatches no tool and never becomes Exhausted.
C4_BackendFailureAborts ==
    /\ [][(NewRound /\ backend_log'[Len(backend_log')] = "fail")
            => /\ outcome' = "Aborted"
               /\ pc' = "done"
               /\ raised'
               /\ exit_code' # 0
               /\ ~warned']_vars
    /\ [][outcome = "Aborted"
            => /\ backend_log' = backend_log
               /\ call_log' = call_log
               /\ messages' = messages
               /\ outcome' = "Aborted"
               /\ ~warned']_vars

C4_Witness ==
    /\ outcome = "Aborted"
    /\ raised
    /\ Len(backend_log) >= 2
    /\ i < compute
    /\ call_log # <<>>

\* C5: the run is Terminated only through a run_final_sql_query invocation
\* that succeeded; one whose dispatch failed (argument missing or database
\* failure) did not end the run and was recorded as an error turn.
C5_TerminatedOnlyOnSuccessClaim ==
    /\ outcome = "Terminated"
         => call_log # <<>> /\ LastCall.name = Final /\ Succeeded(LastCall)
    /\ \A k \in DOMAIN call_log :
          LET e == call_log[k]
          IN  (e.name = Final /\ Failed(e))
                => /\ ~e.ret
                   /\ e.turn \in DOMAIN messages
                   /\ IsErrorTurnFor(messages[e.turn], e)

\* C6: an invocation of a registered tool that lacks a required argument
\* does not raise out of its dispatch and appends exactly one turn, an error
\* turn whose text holds the tool name and the supplied arguments.
C6_MissingArgumentFeedback ==
    [][(NewCall /\ MissingArgument(LastCall'))
          => /\ ~raised'
             /\ outcome' = "Running"
             /\ pc' # "done"
             /\ Len(messages') = Len(messages) + 1
             /\ SubSeq(messages', 1, Len(messages)) = messages
             /\ IsErrorTurnFor(messages'[Len(messages')], LastCall')
             /\ LastCall'.db = "none"]_vars

C6_Witness ==
    /\ call_log # <<>>
    /\ LastCall.name = "describe_table"
    /\ LastCall.args = <<"reasoning">>
    /\ MissingArgument(LastCall)
    /\ messages[Len(messages)].role = "model"

\* C7: an invocation of an unregistered tool name appends an error turn
\* naming it, and no function-result turn ever carries an unregistered name.
C7_UnknownToolClaim ==
    /\ \A k \in DOMAIN call_log :
          LET e == call_log[k]
          IN  e.name \notin ToolNames
                => /\ e.turn \in DOMAIN messages
                   /\ IsErrorTurnFor(messages[e.turn], e)
    /\ \A k \in DOMAIN messages :
          messages[k].role = "function" => messages[k].name \in ToolNames

\* C8: an invocation during which the database process failed appended an
\* error turn naming the tool, never a function-result turn.
C8_ExecutionErrorClaim ==
    \A k \in DOMAIN call_log :
        LET e == call_log[k]
        IN  ExecutionFailed(e)
              => /\ e.turn \in DOMAIN messages
                 /\ IsErrorTurnFor(messages[e.turn], e)
                 /\ messages[e.turn].role # "function"

\* C9: a failed invocation aborts neither its round nor the run: the run
\* stays Running, the calls that follow it in the reply stay due in order,
\* and after the last call of the reply the loop is back at its head.
C9_FailureDoesNotAbortClaim ==
    [][(NewCall /\ Failed(LastCall'))
          => /\ outcome' = "Running"
             /\ ~raised'
             /\ pending' = Tail(pending)
             /\ pc' = (IF Tail(pending) = <<>> THEN "loop" ELSE "calls")]_vars

\* C10: the history starts as the single user turn, every step keeps the
\* earlier history as a prefix of the later one, and the rounds of the turns
\* never decrease along the history.
C10_AppendOnly ==
    /\ [][(pc = "start" /\ pc' = "loop") => messages' = <<UserTurn>>]_vars
    /\ [][pc # "start" => IsPrefix(messages, messages')]_vars
    /\ [](Len(stamps) = Len(messages))
    /\ [](\A a, b \in DOMAIN stamps : a < b => stamps[a] <= stamps[b])

C10_Witness ==
    /\ Len(messages) >= 4
    /\ messages[1] = UserTurn
    /\ \E a, b \in DOMAIN stamps : stamps[a] = 1 /\ stamps[b] = 2

\* C11: a round whose reply holds no function call appends exactly one model
\* turn with the reply text, dispatches no tool, leaves the run Running and
\* uses up one round.
C11_FreeTextRound ==
    [][(NewRound /\ backend_log'[Len(backend_log')] = "text")
          => /\ messages' = Append(messages, TextTurn)
             /\ call_log' = call_log
             /\ pending' = <<>>
             /\ outcome' = "Running"
             /\ pc' = "loop"
             /\ i' = i + 1
             /\ output' = output]_vars

C11_Witness ==
    /\ backend_log # <<>>
    /\ backend_log[Len(backend_log)] = "text"
    /\ messages[Len(messages)] = TextTurn
    /\ outcome = "Running"
    /\ i = 2

\* C12: output is surfaced only by the run_final_sql_query invocation that
\* ends the run, and it is the value that invocation returned; no other tool
\* result is ever surfaced.
C12_OnlyFinalSurfaced ==
    /\ [][output' # output
            => /\ NewCall
               /\ LastCall'.name = Final
               /\ LastCall'.ret
               /\ output' = Append(output, ToolReturn(Final, LastCall'.db))
               /\ outcome' = "Terminated"]_vars
    /\ [](Len(output) <= 1)
    /\ [](outcome # "Terminated" => output = <<>>)

C12_Witness ==
    /\ outcome = "Terminated"
    /\ Len(output) = 1
    /\ Len(call_log) = 2
    /\ call_log[1].name = "run_test_sql_query"
    /\ call_log[1].db = "ok"
    /\ messages[call_log[1].turn].role = "function"

\* C13: without the credential the process exits with a nonzero status and
\* makes no backend call, dispatches no tool and never sets or uses the
\* database path.
C13_MissingCredential ==
    ~api_key
      => /\ backend_log = <<>>
         /\ call_log = <<>>
         /\ i = 0
         /\ DB_PATH = "unset"
         /\ pc \in {"start", "done"}
         /\ pc = "done" => (outcome = "ConfigError" /\ exit_code # 0 /\ exit_code # -1)

C13_Witness == ~api_key /\ pc = "done" /\ exit_code = 1 /\ compute >= 1

\* Entries of the call log made in round k, and the turns appended in it.
CallsOfRound(k) == {j \in DOMAIN call_log : call_log[j].round = k}

TurnsOfRound(k) == {j \in DOMAIN stamps : stamps[j] = k}

\* Number of function calls in the reply of round k, read off the first
\* entry the round made.
ReplySize(k) ==
    LET first == CHOOSE j \in CallsOfRound(k) : \A l \in CallsOfRound(k) : j <= l
    IN  call_log[first].left + 1

TextRounds == {k \in DOMAIN backend_log : backend_log[k] = "text"}

\* C16: the calls of a reply are dispatched one per step in the order of the
\* reply, each appending its turn in the step that dispatches it, so the
\* turns of a round lie in the history in the order of their calls.
C16_SequentialInOrder ==
    /\ [][NewCall
            => /\ LastCall'.name = Head(pending).name
               /\ LastCall'.args = Head(pending).args
               /\ LastCall'.left = Len(pending) - 1
               /\ ~LastCall'.ret
                    => /\ pending' = Tail(pending)
                       /\ Len(messages') = Len(messages) + 1
                       /\ LastCall'.turn = Len(messages')]_vars
    /\ [][Len(call_log') <= Len(call_log) + 1]_vars
    /\ [](\A a, b \in DOMAIN call_log :
            (a < b /\ call_log[a].round = call_log[b].round)
              => /\ call_log[a].left > call_log[b].left
                 /\ call_log[b].turn # 0 => call_log[a].turn < call_log[b].turn)

C16_Witness ==
    /\ Len(call_log) = 2
    /\ call_log[1].round = call_log[2].round
    /\ call_log[1].name # call_log[2].name
    /\ call_log[1].turn = 2
    /\ call_log[2].turn = 3

\* C17: a dispatched call of a non-final registered tool appends exactly one
\* turn, a result turn or an error turn; so when the loop is back at its
\* head, every round has appended as many turns as its reply held calls, or
\* one for a free-text reply.
C17_OneTurnPerCall ==
    /\ [][(NewCall /\ LastCall'.name \in ToolNames \ {Final})
            => /\ Len(messages') = Len(messages) + 1
               /\ SubSeq(messages', 1, Len(messages)) = messages
               /\ LET t == messages'[Len(messages')]
                  IN  \/ t.role = "function" /\ t.name = LastCall'.name
                      \/ IsErrorTurnFor(t, LastCall')]_vars
    /\ []((pc = "loop" /\ outcome = "Running")
            => \A k \in DOMAIN backend_log :
                  Cardinality(TurnsOfRound(k)) =
                      IF backend_log[k] = "text" THEN 1
                      ELSE ReplySize(k))

C17_Witness ==
    /\ pc = "loop"
    /\ Len(call_log) = 2
    /\ call_log[1].round = 1
    /\ call_log[2].round = 1
    /\ call_log[1].name = "sample_table"
    /\ messages[call_log[1].turn].role = "function"
    /\ call_log[2].name = "run_test_sql_query"
    /\ messages[call_log[2].turn].role = "model"
    /\ Len(backend_log) = 2
    /\ backend_log[2] = "text"
    /\ Len(messages) = 4

C19_NoRoundWithoutBudget ==
    /\ []((api_key /\ compute <= 0 /\ pc # "start")
            => /\ backend_log = <<>>
               /\ call_log = <<>>
               /\ i = 0
               /\ messages = <<UserTurn>>
               /\ pc = "done"
                    => /\ outcome = "Exhausted"
                       /\ warned
                       /\ exit_code = 0
                       /\ ~raised)
    /\ [][(api_key /\ compute <= 0 /\ pc = "loop")
            => (pc' = "done" /\ outcome' = "Exhausted")]_vars

C19_Witness ==
    /\ api_key
    /\ compute = -1
    /\ pc = "done"
    /\ outcome = "Exhausted"
    /\ warned

\* C20: every run ends: it reaches "done", a run that got past the
\* credential check ends Terminated, Exhausted or Aborted, the outcome once
\* set is kept, and no step is taken after the end.
C20_Terminates ==
    /\ <>(pc = "done")
    /\ []((pc = "done" /\ api_key)
            => outcome \in {"Terminated", "Exhausted", "Aborted"})
    /\ [](pc = "done" <=> outcome # "Running")
    /\ [][outcome # "Running" => outcome' = outcome]_vars
    /\ [][pc = "done" => UNCHANGED vars]_vars

C20_Witness ==
    /\ pc = "done"
    /\ outcome = "Exhausted"
    /\ Len(backend_log) = MaxCompute
    /\ Len(call_log) = MaxInvocations

\* C14: runs in one process share no state: every tool call of a run is
\* executed against the database path of that run, and the history of a run
\* holds only turns that run appended.
C14_RunsIsolatedClaim ==
    \A r \in DOMAIN runs :
        /\ \A k \in DOMAIN runs[r].calls :
              runs[r].calls[k].path \in {"none", runs[r].db}
        /\ Len(runs[r].owners) = Len(runs[r].messages)
        /\ \A k \in DOMAIN runs[r].owners : runs[r].owners[k] = "self"

\* The history with every reasoning text blanked.
EraseReasoning(h) ==
    [k \in DOMAIN h |->
        [h[k] EXCEPT !.content =
            [j \in DOMAIN h[k].content |->
                IF h[k].content[j] \in Reasonings THEN "*"
                ELSE h[k].content[j]]]]

\* What the two runs did, apart from their histories.
SameCourse(a, b) ==
    /\ a.pc = b.pc
    /\ a.i = b.i
    /\ a.replies = b.replies
    /\ a.calls = b.calls
    /\ a.outcome = b.outcome
    /\ a.raised = b.raised
    /\ a.warned = b.warned
    /\ a.output = b.output

====
